---- MODULE Spec2Model ----
(***************************************************************************)
(* Model of the UI code generator's core (generate_html.py): the box       *)
(* geometry (BBox.contains, BBox.overlap_ratio), the incremental tree      *)
(* builder (Element.add_child, create_tree), the row/column heuristic      *)
(* (determine_flex_direction, get_children_order) and the renderer         *)
(* (generate_html).                                                        *)
(*                                                                         *)
(* Floats are modelled exactly: a center (x1+x2)/2 is kept as x1+x2 (twice *)
(* its value), a ratio as numerator and denominator, and standard          *)
(* deviations are compared through their exact squared sums.  A Python     *)
(* exception is a result record with raised = TRUE.  Iterating a Python    *)
(* set visits its members in an order the program does not control: every  *)
(* order is a possible outcome.                                            *)
(***************************************************************************)
EXTENDS Integers, Sequences, FiniteSets, TLC

(* ---------------------------- bounds ----------------------------------- *)
\* geometry specification: corner coordinates range over 0..MaxX, 0..MaxY
MaxX == 5
MaxY == 1
\* tree specifications: at most MaxElems elements in a batch
MaxElems == 3
\* number of repeated root.add_child calls after a build (SpecReinsert)
MaxReinsert == 1

(* ------------------------ program constants ---------------------------- *)
\* the overlap threshold 0.6 of BBox.contains, as the fraction 6/10
ThresholdNum == 6
ThresholdDen == 10

VARIABLES
    elements,   \* the input batch: a sequence of Elements (class_name, bbox, class_id)
    children,   \* children[n]: the children set of node n (0 is the sentinel root)
    i,          \* number of elements create_tree's loop has passed to root.add_child
    status,     \* "building", "built" (create_tree returned), "raised", "rendered"
    html,       \* the markup generate_html returned, as a sequence of tag tokens
    calls,      \* number of repeated root.add_child calls made after the build
    self_box,   \* geometry specification: the receiver box of the call
    arg_box,    \* geometry specification: the argument box of the call
    ret         \* geometry specification: what the call returned or raised

vars == <<elements, children, i, status, html, calls, self_box, arg_box, ret>>
treeVars == <<elements, children, i, status, html, calls>>
geomVars == <<self_box, arg_box, ret>>

(* ============================ BBox ===================================== *)
BBox(x1, y1, x2, y2) == [x1 |-> x1, y1 |-> y1, x2 |-> x2, y2 |-> y2]

Max(a, b) == IF a >= b THEN a ELSE b
Min(a, b) == IF a <= b THEN a ELSE b

\* (x2 - x1) * (y2 - y1), as written in contains and in overlap_ratio
Area(b) == (b.x2 - b.x1) * (b.y2 - b.y1)

\* self.overlap_ratio(child): intersection / area of self.  The early return
\* gives 0.0 (0/1); the division raises ZeroDivisionError when self has area 0.
overlap_ratio(self, child) ==
    LET x_left   == Max(self.x1, child.x1)
        y_top    == Max(self.y1, child.y1)
        x_right  == Min(self.x2, child.x2)
        y_bottom == Min(self.y2, child.y2)
        intersection == (x_right - x_left) * (y_bottom - y_top)
        self_area    == Area(self)
    IN  IF x_right < x_left \/ y_bottom < y_top
        THEN [raised |-> FALSE, num |-> 0, den |-> 1]
        ELSE IF self_area = 0
        THEN [raised |-> TRUE, num |-> 0, den |-> 0]
        ELSE [raised |-> FALSE, num |-> intersection, den |-> self_area]

\* num/den > 0.6 for a ratio that was computed (den # 0)
ExceedsThreshold(r) ==
    IF r.den > 0
    THEN r.num * ThresholdDen > ThresholdNum * r.den
    ELSE r.num * ThresholdDen < ThresholdNum * r.den

\* self.contains(child).  The overlap is computed before the conjunction is
\* evaluated, so its ZeroDivisionError propagates whatever the other two say.
contains_area_not_strict(self, child) ==
    LET center_contained ==
            /\ 2 * self.x1 <= child.x1 + child.x2
            /\ child.x1 + child.x2 <= 2 * self.x2
            /\ 2 * self.y1 <= child.y1 + child.y2
            /\ child.y1 + child.y2 <= 2 * self.y2
        overlap == overlap_ratio(child, self)
    IN  IF overlap.raised
        THEN [raised |-> TRUE, value |-> FALSE]
        ELSE [raised |-> FALSE,
              value  |-> /\ center_contained
                         /\ Area(self) >= Area(child)
                         /\ ExceedsThreshold(overlap)]

contains(self, child) ==
    LET child_center_x2 == child.x1 + child.x2    \* twice child_center_x
        child_center_y2 == child.y1 + child.y2    \* twice child_center_y
        center_contained ==
            /\ 2 * self.x1 <= child_center_x2
            /\ child_center_x2 <= 2 * self.x2
            /\ 2 * self.y1 <= child_center_y2
            /\ child_center_y2 <= 2 * self.y2
        self_area  == Area(self)
        child_area == Area(child)
        overlap    == overlap_ratio(child, self)
    IN  IF overlap.raised
        THEN [raised |-> TRUE, value |-> FALSE]
        ELSE [raised |-> FALSE,
              value  |-> /\ center_contained
                         /\ self_area > child_area
                         /\ ExceedsThreshold(overlap)]

(* ============================ Element ================================== *)
\* Element(class_name, bbox, class_id); children starts as the empty set
Element(class_name, bbox, class_id) ==
    [class_name |-> class_name, bbox |-> bbox, class_id |-> class_id]

\* create_tree's sentinel: Element("root", BBox(0, 0, 0, 0)); class_id None is -1
RootElement == Element("root", BBox(0, 0, 0, 0), -1)

Root == 0
Nodes == 0 .. Len(elements)
Node(n) == IF n = Root THEN RootElement ELSE elements[n]
Box(n) == Node(n).bbox

\* the children sets before the build: every Element starts with none
RECURSIVE NoChildrenUpTo(_)
NoChildrenUpTo(k) ==
    IF k = 0 THEN (Root :> {}) ELSE NoChildrenUpTo(k - 1) @@ (k :> {})
EmptyChildren == NoChildrenUpTo(Len(elements))

\* the outcome of a call: the children sets it leaves, and whether it returned
Returned(ch) == [ch |-> ch, ok |-> TRUE]
Raised(ch)   == [ch |-> ch, ok |-> FALSE]

RECURSIVE add_child(_, _, _)
RECURSIVE RelocationLoop(_, _, _, _, _)
RECURSIVE DelegationLoop(_, _, _, _)

\* (variant: the relocation test with receiver and argument exchanged)
RelocationLoop_reversed(ch, self, child, todo, moved) ==
    IF todo = {}
    THEN {[ch |-> ch, ok |-> TRUE, moved |-> moved]}
    ELSE UNION {
        LET c == contains(Box(existing_child), Box(child))
        IN  IF c.raised
            THEN {[ch |-> ch, ok |-> FALSE, moved |-> moved]}
            ELSE IF c.value
            THEN UNION {
                    IF sub.ok
                    THEN RelocationLoop(sub.ch, self, child,
                                        todo \ {existing_child},
                                        moved \cup {existing_child})
                    ELSE {[ch |-> sub.ch, ok |-> FALSE,
                           moved |-> moved \cup {existing_child}]}
                    : sub \in add_child(ch, child, existing_child) }
            ELSE RelocationLoop(ch, self, child, todo \ {existing_child}, moved)
        : existing_child \in todo }

\* lines 118-123: for existing_child in self.children, in any order; todo is
\* what the iteration has not visited yet, moved is children_to_move.  The
\* result carries moved so that line 126 can subtract it.
RelocationLoop(ch, self, child, todo, moved) ==
    IF todo = {}
    THEN {[ch |-> ch, ok |-> TRUE, moved |-> moved]}
    ELSE UNION {
        LET c == contains(Box(child), Box(existing_child))
        IN  IF c.raised
            THEN {[ch |-> ch, ok |-> FALSE, moved |-> moved]}
            ELSE IF c.value
            THEN UNION {
                    IF sub.ok
                    THEN RelocationLoop(sub.ch, self, child,
                                        todo \ {existing_child},
                                        moved \cup {existing_child})
                    ELSE {[ch |-> sub.ch, ok |-> FALSE,
                           moved |-> moved \cup {existing_child}]}
                    : sub \in add_child(ch, child, existing_child) }
            ELSE RelocationLoop(ch, self, child, todo \ {existing_child}, moved)
        : existing_child \in todo }

\* (variant: the new child is never handed to an existing child)
DelegationLoop_never(ch, self, child, todo) ==
    {Returned([ch EXCEPT ![self] = @ \cup {child}])}

\* lines 128-135: the first existing child, in iteration order, that contains
\* the new child takes it; when none does, the child is added to self
DelegationLoop(ch, self, child, todo) ==
    IF todo = {}
    THEN {Returned([ch EXCEPT ![self] = @ \cup {child}])}
    ELSE UNION {
        LET c == contains(Box(existing_child), Box(child))
        IN  IF c.raised
            THEN {Raised(ch)}
            ELSE IF c.value
            THEN add_child(ch, existing_child, child)
            ELSE DelegationLoop(ch, self, child, todo \ {existing_child})
        : existing_child \in todo }

\* (variant: the moved children are not removed from self.children)
add_child_keep_moved(ch, self, child) ==
    IF child \in ch[self]
    THEN {Returned(ch)}
    ELSE UNION {
        IF ~rel.ok
        THEN {Raised(rel.ch)}
        ELSE DelegationLoop(rel.ch, self, child, rel.ch[self])
        : rel \in RelocationLoop(ch, self, child, ch[self], {}) }

\* self.add_child(child) on the children sets ch: the set of possible outcomes
add_child(ch, self, child) ==
    IF child \in ch[self]
    THEN {Returned(ch)}
    ELSE UNION {
        IF ~rel.ok
        THEN {Raised(rel.ch)}
        ELSE LET ch1 == [rel.ch EXCEPT ![self] = @ \ rel.moved]
             IN  DelegationLoop(ch1, self, child, ch1[self])
        : rel \in RelocationLoop(ch, self, child, ch[self], {}) }

\* create_tree's loop over the children sets ch, from the k-th element on: the
\* set of outcomes of the whole build (used to compare iteration orders)
RECURSIVE create_tree(_, _)
create_tree(ch, k) ==
    IF k = Len(elements)
    THEN {Returned(ch)}
    ELSE UNION { IF res.ok THEN create_tree(res.ch, k + 1) ELSE {res}
                 : res \in add_child(ch, Root, k + 1) }

(* ===================== determine_flex_direction ======================== *)
\* twice the x_center / y_center of a child
Center2(n, axis) ==
    IF axis = "x" THEN Box(n).x1 + Box(n).x2 ELSE Box(n).y1 + Box(n).y2

RECURSIVE SumCenters(_, _)
SumCenters(S, axis) ==
    IF S = {} THEN 0
    ELSE LET m == CHOOSE m \in S : TRUE
         IN  Center2(m, axis) + SumCenters(S \ {m}, axis)

RECURSIVE SumSquares(_, _, _, _)
SumSquares(S, axis, n, total) ==
    IF S = {} THEN 0
    ELSE LET m == CHOOSE m \in S : TRUE
             d == n * Center2(m, axis) - total
         IN  d * d + SumSquares(S \ {m}, axis, n, total)

\* np.std(coords) = sqrt(mean(abs(c - mean(c)) ** 2)) over the n children S.
\* StdScaled is its square times 4 * n^3 (a positive factor, the same for
\* both axes): the sum over the children of (n * 2c - sum of 2c)^2.
StdScaled(S, axis) ==
    SumSquares(S, axis, Cardinality(S), SumCenters(S, axis))

determine_flex_direction_ge(element) ==
    IF children[element] = {}
    THEN "flex-col"
    ELSE IF StdScaled(children[element], "x") >= StdScaled(children[element], "y")
         THEN "flex-row" ELSE "flex-col"

determine_flex_direction(element) ==
    IF children[element] = {}
    THEN "flex-col"
    ELSE LET std_x == StdScaled(children[element], "x")
             std_y == StdScaled(children[element], "y")
         IN  IF std_x > std_y THEN "flex-row" ELSE "flex-col"

(* ======================== get_children_order =========================== *)
SortKey(orientation, n) ==
    IF orientation = "flex-row" THEN Box(n).x1 ELSE Box(n).y1

\* sorted(S, key): every ascending arrangement of S; sorted is stable, so
\* children with equal keys keep the set's iteration order, which is any order
RECURSIVE Sorted(_, _)
Sorted(S, orientation) ==
    IF S = {} THEN {<<>>}
    ELSE UNION { { <<m>> \o t : t \in Sorted(S \ {m}, orientation) }
                 : m \in { s \in S : \A o \in S :
                             SortKey(orientation, s) <= SortKey(orientation, o) } }

get_children_order_swapped(orientation, element) ==
    Sorted(children[element],
           IF orientation = "flex-row" THEN "flex-col" ELSE "flex-row")

get_children_order(orientation, element) ==
    Sorted(children[element], orientation)

(* ============================ generate_html ============================ *)
\* the flex direction that get_tailwind_classes embeds in the class list of a
\* container kind; "" for the kinds whose class list has none
FlexKinds == {"div", "div-bg", "footer", "header", "list", "section", "span"}
get_tailwind_classes(element) ==
    IF Node(element).class_name \in FlexKinds
    THEN determine_flex_direction(element)
    ELSE ""

get_element_tag(class_name) ==
    CASE class_name = "button"    -> "button"
      [] class_name = "heading"   -> "h2"
      [] class_name = "paragraph" -> "p"
      [] class_name = "image"     -> "img"
      [] class_name = "input"     -> "input"
      [] class_name = "span"      -> "span"
      [] class_name = "text"      -> "span"
      [] class_name = "header"    -> "header"
      [] class_name = "footer"    -> "footer"
      [] class_name = "section"   -> "section"
      [] OTHER                    -> "div"

SelfClosing == {"image", "input"}

\* the opening tag of an element: its tag, class list, data-id and data-type
\* (node names the element the tag was emitted for)
OpenTag(element, indent) ==
    [kind      |-> "open",
     node      |-> element,
     indent    |-> indent,
     tag       |-> get_element_tag(Node(element).class_name),
     classes   |-> get_tailwind_classes(element),
     data_id   |-> Node(element).class_id,
     data_type |-> Node(element).class_name]

CloseTag(element, indent) ==
    [kind   |-> "close",
     node   |-> element,
     indent |-> indent,
     tag    |-> get_element_tag(Node(element).class_name)]

RECURSIVE generate_element_html(_, _)
RECURSIVE JoinChildren(_, _)

\* "".join(generate_element_html(child, indent) for child in order)
JoinChildren(order, indent) ==
    IF order = <<>> THEN {<<>>}
    ELSE { h \o t : h \in generate_element_html(Head(order), indent),
                    t \in JoinChildren(Tail(order), indent) }

\* the markup of an element and its subtree: every string the function can
\* return (an Element is always truthy, so line 294 never returns)
generate_element_html(element, indent) ==
    IF Node(element).class_name = "root"
    THEN UNION { JoinChildren(order, indent)
                 : order \in get_children_order(determine_flex_direction(element),
                                                element) }
    ELSE IF Node(element).class_name \notin SelfClosing
    THEN UNION { { <<OpenTag(element, indent)>> \o body
                       \o <<CloseTag(element, indent)>>
                   : body \in JoinChildren(order, indent + 1) }
                 : order \in get_children_order(determine_flex_direction(element),
                                                element) }
    ELSE {<<OpenTag(element, indent)>>}

(* ============================== inputs ================================= *)
\* class ids as an annotation file numbers its class labels
ClassIdOf(class_name) ==
    CASE class_name = "div"   -> 1
      [] class_name = "image" -> 7
      [] class_name = "input" -> 8
      [] OTHER                -> 14

Annotations(classes, boxes) ==
    { Element(c, b, ClassIdOf(c)) : c \in classes, b \in boxes }

\* the batches parse_annotations can hand to create_tree
Batches(annotations) ==
    UNION { [1 .. k -> annotations] : k \in 0 .. MaxElems }

\* boxes of the build specifications: two equal-area containers that overlap
\* (P, Q), a box both contain that sticks out of P (E), a box E contains and
\* P does not (X), a box inside P and E (T), a box beside them (S), a box
\* around all of them (W), a zero-area box inside P and Q (Z), and boxes
\* with corners in the wrong order (R: both axes, V: the x axis only)
BoxP == BBox(0, 0, 2, 2)
BoxQ == BBox(0, 1, 2, 3)
BoxE == BBox(0, 0, 1, 3)
BoxX == BBox(0, 1, 1, 3)
BoxS == BBox(3, 0, 4, 1)
BoxZ == BBox(1, 1, 1, 1)
BoxR == BBox(2, 2, 0, 0)
BoxT == BBox(0, 0, 1, 1)
BoxW == BBox(0, 0, 4, 3)
BoxV == BBox(2, 0, 0, 2)
BuildBoxes == {BoxP, BoxQ, BoxE, BoxX, BoxT, BoxS, BoxW, BoxZ, BoxR, BoxV}
BuildClasses == {"div"}

\* boxes and class labels of the rendering specification
RenderBoxes == {BoxQ, BoxE, BoxS}
RenderClasses == {"div", "image", "input", "root"}

\* boxes of the geometry specification: every box on the grid, valid or not
GridBoxes ==
    { BBox(x1, y1, x2, y2) : x1 \in 0 .. MaxX, x2 \in 0 .. MaxX,
                             y1 \in 0 .. MaxY, y2 \in 0 .. MaxY }

NotCalled == [fn |-> "none"]

(* ============================== actions ================================ *)
InitTree(annotations) ==
    /\ elements \in Batches(annotations)
    /\ children = EmptyChildren
    /\ i = 0
    /\ status = "building"
    /\ html = <<>>
    /\ calls = 0
    /\ self_box = BBox(0, 0, 0, 0)
    /\ arg_box = BBox(0, 0, 0, 0)
    /\ ret = NotCalled

Init == InitTree(Annotations(BuildClasses, BuildBoxes))

InitRender == InitTree(Annotations(RenderClasses, RenderBoxes))

\* one iteration of create_tree's loop: root.add_child(element)
CreateTreeStep ==
    /\ status = "building"
    /\ i < Len(elements)
    /\ \E out \in add_child(children, Root, i + 1) :
          /\ children' = out.ch
          /\ i' = IF out.ok THEN i + 1 ELSE i
          /\ status' = IF out.ok THEN "building" ELSE "raised"
    /\ UNCHANGED <<elements, html, calls>>
    /\ UNCHANGED geomVars

\* the loop is over: return root
CreateTreeReturn ==
    /\ status = "building"
    /\ i = Len(elements)
    /\ status' = "built"
    /\ UNCHANGED <<elements, children, i, html, calls>>
    /\ UNCHANGED geomVars

\* generate_html(root)
GenerateHtml ==
    /\ status = "built"
    /\ html' \in generate_element_html(Root, 0)
    /\ status' = "rendered"
    /\ UNCHANGED <<elements, children, i, calls>>
    /\ UNCHANGED geomVars

\* root.add_child(e) once more, for an element the build has already inserted
Reinsert ==
    /\ status = "built"
    /\ calls < MaxReinsert
    /\ \E e \in 1 .. Len(elements) :
          \E out \in add_child(children, Root, e) :
             /\ children' = out.ch
             /\ status' = IF out.ok THEN "built" ELSE "raised"
    /\ calls' = calls + 1
    /\ UNCHANGED <<elements, i, html>>
    /\ UNCHANGED geomVars

Next == CreateTreeStep \/ CreateTreeReturn \/ GenerateHtml

NextReinsert == CreateTreeStep \/ CreateTreeReturn \/ Reinsert

Spec == Init /\ [][Next]_vars

SpecRender == InitRender /\ [][Next]_vars

SpecReinsert == Init /\ [][NextReinsert]_vars

(* ---------------------- geometry specification ------------------------- *)
InitGeom ==
    /\ self_box \in GridBoxes
    /\ arg_box \in GridBoxes
    /\ ret = NotCalled
    /\ elements = <<>>
    /\ children = EmptyChildren
    /\ i = 0
    /\ status = "idle"
    /\ html = <<>>
    /\ calls = 0

\* self_box.contains(arg_box)
CallContains ==
    /\ ret = NotCalled
    /\ ret' = [fn |-> "contains", r |-> contains(self_box, arg_box)]
    /\ UNCHANGED <<self_box, arg_box>>
    /\ UNCHANGED treeVars

\* self_box.overlap_ratio(arg_box)
CallOverlapRatio ==
    /\ ret = NotCalled
    /\ ret' = [fn |-> "overlap_ratio", r |-> overlap_ratio(self_box, arg_box)]
    /\ UNCHANGED <<self_box, arg_box>>
    /\ UNCHANGED treeVars

NextGeom == CallContains \/ CallOverlapRatio

SpecGeom == InitGeom /\ [][NextGeom]_vars

(* ============================= properties ============================== *)
Parents(n) == { p \in Nodes : n \in children[p] }

RECURSIVE ReachFrom(_, _)
ReachFrom(S, k) ==
    IF k = 0 THEN S
    ELSE ReachFrom(S \cup UNION { children[m] : m \in S }, k - 1)

\* the nodes below n
Descendants(n) == ReachFrom(children[n], Len(elements))
Ancestors(n) == { a \in Nodes : n \in Descendants(a) }

\* root.add_child has returned for the first i elements
AfterReturn == status \in {"building", "built", "rendered"}

\* the unit cells of the plane a box covers (none when its corners are in
\* the wrong order or it has no area)
Cells(b) ==
    { c \in (Min(b.x1, b.x2) .. Max(b.x1, b.x2)) \X (Min(b.y1, b.y2) .. Max(b.y1, b.y2)) :
        /\ b.x1 <= c[1] /\ c[1] < b.x2
        /\ b.y1 <= c[2] /\ c[2] < b.y2 }

\* the three conditions of containment, stated on the boxes: the child's
\* center in the parent's closed rectangle, the parent's area strictly
\* greater, and more than 0.6 = 3/5 of the child's cells inside the parent
CenterInside(parent, child) ==
    /\ 2 * parent.x1 <= child.x1 + child.x2 /\ child.x1 + child.x2 <= 2 * parent.x2
    /\ 2 * parent.y1 <= child.y1 + child.y2 /\ child.y1 + child.y2 <= 2 * parent.y2
AreaDominates(parent, child) == Area(parent) > Area(child)
MostlyInside(parent, child) ==
    5 * Cardinality(Cells(child) \cap Cells(parent)) > 3 * Cardinality(Cells(child))
ContainmentHolds(parent, child) ==
    /\ CenterInside(parent, child)
    /\ AreaDominates(parent, child)
    /\ MostlyInside(parent, child)

\* C1: after every root.add_child call of a build of distinct elements has
\* returned (and so after create_tree has), the tree under the sentinel is
\* well-formed: every inserted element has exactly one parent and is
\* reachable from the root, no node is its own descendant, nothing points at
\* the root, and the elements not yet inserted are outside the tree.
C1_TreeWellFormed ==
    AfterReturn =>
        /\ Parents(Root) = {}
        /\ \A n \in 1 .. Len(elements) :
              /\ n \notin Descendants(n)
              /\ n <= i => /\ Cardinality(Parents(n)) = 1
                           /\ n \in Descendants(Root)
              /\ n > i  => /\ Parents(n) = {}
                           /\ children[n] = {}

\* a finished build of three elements in which an element was taken out of
\* the root's children and put under a later, larger element
C1_Witness ==
    /\ status = "built"
    /\ Len(elements) >= 3
    /\ \E a, b \in 1 .. Len(elements) :
          /\ a < b
          /\ a \in children[b]
          /\ \E c \in 1 .. Len(elements) : c \in children[a]

C3_ReinsertLeavesTreeUnchanged ==
    [][(calls' = calls + 1 /\ status' = "built") => children' = children]_vars

\* a box a detector must not produce: no area, or corners in the wrong order
InvalidGeometry(b) == Area(b) <= 0 \/ b.x2 < b.x1 \/ b.y2 < b.y1

\* C4: an element with invalid geometry is left out of the tree create_tree
\* builds, and the build is not aborted by it.
C4_InvalidElementsExcluded ==
    /\ status # "raised"
    /\ status = "built" =>
          \A n \in 1 .. Len(elements) :
              InvalidGeometry(Box(n)) => Parents(n) = {}

\* the box of the call whose area is the denominator
Target == IF ret.fn = "contains" THEN arg_box ELSE self_box

\* C5: with a target box of area zero, overlap_ratio returns 0.0 and
\* contains returns false; neither raises.
C5_NoDivisionFault ==
    (ret.fn # "none" /\ Area(Target) = 0) =>
        /\ ~ret.r.raised
        /\ ret.fn = "overlap_ratio" => ret.r.num = 0
        /\ ret.fn = "contains" => ~ret.r.value

\* twice the center of a node's box along an axis, from the box itself
CenterTwice(n, axis) ==
    IF axis = "x" THEN elements[n].bbox.x1 + elements[n].bbox.x2
                  ELSE elements[n].bbox.y1 + elements[n].bbox.y2

RECURSIVE SumOfSquaredGaps(_, _, _)
SumOfSquaredGaps(pairs, S, axis) ==
    IF pairs = {} THEN 0
    ELSE LET q == CHOOSE q \in pairs : TRUE
             d == CenterTwice(q[1], axis) - CenterTwice(q[2], axis)
         IN  d * d + SumOfSquaredGaps(pairs \ {q}, S, axis)

\* the population variance of the centers of S along an axis, times
\* 8 * |S|^2: the sum of the squared gaps between every two centers
Dispersion(S, axis) == SumOfSquaredGaps(S \X S, S, axis)

ExpectedDirection(n) ==
    IF children[n] = {} THEN "flex-col"
    ELSE IF Dispersion(children[n], "x") > Dispersion(children[n], "y")
         THEN "flex-row" ELSE "flex-col"

Positions(n) == { k \in 1 .. Len(html) : html[k].node = n }
SubtreePositions(n) ==
    UNION { Positions(d) : d \in {n} \cup Descendants(n) }
Opens(n) == { k \in Positions(n) : html[k].kind = "open" }
Closes(n) == { k \in Positions(n) : html[k].kind = "close" }

\* x1 of the child when its parent's children form a row, else y1
OrderingKey(parent, child) ==
    IF ExpectedDirection(parent) = "flex-row"
    THEN elements[child].bbox.x1 ELSE elements[child].bbox.y1

Before(a, b) ==
    \A ka \in SubtreePositions(a) : \A kb \in SubtreePositions(b) : ka < kb

C8_OneTagPerElement ==
    status = "rendered" =>
        /\ Positions(Root) = {}
        /\ \A n \in 1 .. Len(elements) :
              IF \E a \in Ancestors(n) \ {Root} : elements[a].class_name \in SelfClosing
              THEN Positions(n) = {}
              ELSE /\ Cardinality(Opens(n)) = 1
                   /\ \A k \in Opens(n) :
                         /\ html[k].data_id = elements[n].class_id
                         /\ html[k].data_type = elements[n].class_name
                   /\ elements[n].class_name \in SelfClosing => Closes(n) = {}

\* C9: the tree create_tree returns for a batch is the same for every order
\* in which add_child's two loops can visit a children set.
C9_BuildReproducible ==
    status = "built" =>
        \A t \in create_tree(EmptyChildren, 0) : t.ok => t.ch = children

\* C10: every edge whose parent is not the sentinel root joins a parent that
\* contains the child: center inside, strictly larger area, more than 0.6 of
\* the child covered; so the area strictly decreases from each node to every
\* node below it.
C10_EdgesSatisfyContainment ==
    \A p \in 1 .. Len(elements) :
        /\ \A c \in children[p] :
              /\ c # Root
              /\ ContainmentHolds(elements[p].bbox, elements[c].bbox)
        /\ \A d \in Descendants(p) :
              Area(elements[p].bbox) > Area(elements[d].bbox)

\* a finished build with a chain of two edges below the root, made by
\* delegation (a later element under an earlier one) and by relocation (an
\* earlier element under a later one)
C10_Witness ==
    /\ status = "built"
    /\ \E a, b, c \in 1 .. Len(elements) :
          /\ b \in children[a] /\ a < b
          /\ a \in children[c] /\ a < c

\* a box stands in the containment relation to another: the call returns true
\* (a call that raises does not return false either)
Contains(a, b) ==
    \/ contains(elements[a].bbox, elements[b].bbox).raised
    \/ contains(elements[a].bbox, elements[b].bbox).value
    \/ ContainmentHolds(elements[a].bbox, elements[b].bbox)

\* C11: after every returned root.add_child call of a build of distinct
\* elements, no child of a node (the root included) contains another child
\* of that node; and for the element the root's add_child has just taken, no
\* child left under the root is contained by it, and it is a child of the
\* root only if no other child of the root contains it.
C11_NoSiblingContainment ==
    AfterReturn =>
        /\ \A n \in Nodes : \A a, b \in children[n] :
              a # b => ~Contains(a, b)
        /\ i >= 1 =>
              /\ \A c \in children[Root] \ {i} : ~Contains(i, c)
              /\ i \in children[Root] =>
                    \A c \in children[Root] \ {i} : ~Contains(c, i)

\* a finished build in which the root and an element below it each keep two
\* children side by side, the element having taken one over from the root
C11_Witness ==
    /\ status = "built"
    /\ \E p \in 1 .. Len(elements) :
          /\ Cardinality(children[p]) >= 2
          /\ \E c \in children[p] : c < p
    /\ Len(elements) >= 3

====
